---- MODULE Spec2Model ----
(***************************************************************************)
(* Model of the contact-session service of src/main.py: the in-memory      *)
(* session table `sessions`, the CSV file behind CSV_FILE_PATH, and the    *)
(* five request handlers (read_contacts, write_contacts, start_contact,    *)
(* complete_contact, finish_contact).                                      *)
(*                                                                         *)
(* The CSV file is modelled as the text it holds: a header line and data   *)
(* lines, every cell a string.  A DataFrame is a list of column labels and *)
(* a list of rows whose cells are strings or the missing-value marker NaN. *)
(* pandas' read_csv turns every cell whose text is one of its default      *)
(* missing-value spellings into NaN, and to_csv writes NaN as the empty    *)
(* cell; both conversions are modelled as such.                            *)
(***************************************************************************)
EXTENDS Integers, Sequences, FiniteSets, TLC

VARIABLES
    sessions,   \* the module-level dict `sessions`: session id -> contact dict
    csv,        \* the file at CSV_FILE_PATH: [exists, header, lines]
    uuids,      \* how many uuid4() values have been generated so far
    last,       \* the request served last: [op, token, status]
    started,    \* history: ids whose /start returned 200
    finished,   \* history: ids whose /finish returned 200
    atFinish,   \* history: id -> the in-memory record at the moment of /finish
    served,     \* how many requests have been served
    clean,      \* history: no POST /contacts and no store fault so far
    threads,    \* the requests being served concurrently, one per worker thread
    log         \* history: the requests the worker threads have taken up

vars ==
    << sessions, csv, uuids, last, started, finished, atFinish, served, clean,
       threads, log >>

(***************************************************************************)
(* Bounds of the model.                                                    *)
(***************************************************************************)
MaxSessions == 2          \* uuid4() is called at most this many times
MaxRequests == 3          \* at most this many requests are served
MaxThreads == 2           \* worker threads serving requests at the same time

(***************************************************************************)
(* Python values.                                                          *)
(***************************************************************************)
None == "<None>"          \* Python None / JSON null / an absent cookie
NaN  == "<NaN>"           \* pandas' missing value (float nan) in a DataFrame

Range(s) == {s[i] : i \in DOMAIN s}

IndexOf(s, x) == CHOOSE i \in DOMAIN s : s[i] = x

Min(a, b) == IF a <= b THEN a ELSE b

RECURSIVE Join(_)
\* "".join(chars): a string from a sequence of one-character strings
Join(chars) == IF chars = <<>> THEN "" ELSE Head(chars) \o Join(Tail(chars))

\* Python's s[a:b] on a string held as a sequence of characters
PySlice(s, a, b) == SubSeq(s, Min(a, Len(s)) + 1, Min(b, Len(s)))

CSV_COLUMNS ==
    << "id", "name", "email", "mae", "telefone", "endereco", "geo", "cep",
       "cpf", "nascimento", "data", "ip", "senha", "codigo_telefone",
       "codigo_email" >>

\* the key order of the dict new_contact: the 15 fields in another order
NewContactKeys ==
    << "id", "name", "email", "mae", "cep", "cpf", "nascimento", "data", "ip",
       "telefone", "endereco", "geo", "senha", "codigo_telefone",
       "codigo_email" >>

ContactCompleteFields ==
    {"senha", "cep", "telefone", "codigo_telefone", "email", "codigo_email"}

\* the successive results of str(uuid.uuid4()): pairwise distinct
UuidPool == << "uuid-1", "uuid-2", "uuid-3", "uuid-4", "uuid-5", "uuid-6" >>

uuid4(n) == UuidPool[n + 1]

(***************************************************************************)
(* Field formatting helpers.                                               *)
(***************************************************************************)
format_cpf(cpf) ==
    Join(PySlice(cpf, 0, 3)) \o "." \o Join(PySlice(cpf, 3, 6)) \o "."
        \o Join(PySlice(cpf, 6, 9)) \o "-" \o Join(PySlice(cpf, 9, Len(cpf)))

Digits == {"0", "1", "2", "3", "4", "5", "6", "7", "8", "9"}

\* datetime.strptime(date_str, "%Y-%m-%d %H:%M:%S") accepts the string
\* (zero-padded fields; the calendar range checks are not modelled)
strptime_ok(date_str) ==
    /\ Len(date_str) = 19
    /\ date_str[5] = "-" /\ date_str[8] = "-" /\ date_str[11] = " "
    /\ date_str[14] = ":" /\ date_str[17] = ":"
    /\ \A i \in (1..19) \ {5, 8, 11, 14, 17} : date_str[i] \in Digits

\* strftime("%d/%m/%Y") of the parsed date
format_date(date_str) ==
    Join(SubSeq(date_str, 9, 10)) \o "/" \o Join(SubSeq(date_str, 6, 7))
        \o "/" \o Join(SubSeq(date_str, 1, 4))

\* strftime("%H:%M - %d/%m") of the current Sao Paulo time `now`
get_current_datetime(now) ==
    now.H \o ":" \o now.M \o " - " \o now.d \o "/" \o now.m

(***************************************************************************)
(* pandas: DataFrame, read_csv, to_csv.                                    *)
(***************************************************************************)
\* pandas' default na_values: cell texts that read_csv parses as NaN
NA_VALUES ==
    { "", "#N/A", "#N/A N/A", "#NA", "-1.#IND", "-1.#QNAN", "-NaN", "-nan",
      "1.#IND", "1.#QNAN", "<NA>", "N/A", "NA", "NULL", "NaN", "None",
      "n/a", "nan", "null" }

\* the file before it is created
NoFile == [exists |-> FALSE, header |-> <<>>, lines |-> <<>>]

\* pd.DataFrame(columns=CSV_COLUMNS)
EmptyFrame == [columns |-> CSV_COLUMNS, data |-> <<>>]

\* the text to_csv writes for one cell: NaN and None become the empty cell
CellText(v) == IF v \in {NaN, None} THEN "" ELSE v

\* df.to_csv(CSV_FILE_PATH, index=False): the whole file is rewritten
FileOf(df) ==
    [ exists |-> TRUE,
      header |-> df.columns,
      lines  |-> [i \in DOMAIN df.data |->
                    [j \in DOMAIN df.data[i] |-> CellText(df.data[i][j])]] ]

\* a file holding no header line cannot be parsed (EmptyDataError)
Parsable(file) == file.exists /\ file.header # <<>>

\* pd.read_csv(CSV_FILE_PATH, dtype=str) of a parsable file
FrameOf(file) ==
    [ columns |-> file.header,
      data    |-> [i \in DOMAIN file.lines |->
                    [j \in DOMAIN file.lines[i] |->
                        IF file.lines[i][j] \in NA_VALUES THEN NaN
                        ELSE file.lines[i][j]]] ]

\* df.columns = CSV_COLUMNS raises ValueError unless df has 15 columns
CanSetColumns(df) == Len(df.columns) = Len(CSV_COLUMNS)

\* df.columns = CSV_COLUMNS: the columns are relabelled by position
SetColumns(df) == [df EXCEPT !.columns = CSV_COLUMNS]

\* the value of column `key` in a row of df
Cell(df, row, key) == row[IndexOf(df.columns, key)]

\* a faulty append: the values of the dict are appended in the order of its
\* keys, not aligned to the labels of df's columns
ConcatRowByPosition(df, contact) ==
    [df EXCEPT !.data = Append(df.data,
        [j \in DOMAIN NewContactKeys |-> contact[NewContactKeys[j]]])]

\* pd.concat([df, pd.DataFrame([contact])], ignore_index=True) for a dict
\* whose keys are columns of df: the row is aligned to df's columns by label
ConcatRow(df, contact) ==
    [df EXCEPT !.data = Append(df.data,
        [j \in DOMAIN df.columns |-> contact[df.columns[j]]])]

\* a faulty re-synchronisation: the record is appended as a new row, the
\* way start_contact adds its row
SetRowsOfAppends(df, session_id, contact) == ConcatRow(df, contact)

\* for key, value in contact.items(): df.loc[df['id'] == session_id, key] = value
\* (every row whose id cell equals session_id gets every value of the dict;
\*  no row is added when none matches)
SetRowsOf(df, session_id, contact) ==
    [df EXCEPT !.data =
        [i \in DOMAIN df.data |->
            IF Cell(df, df.data[i], "id") = session_id
            THEN [j \in DOMAIN df.columns |->
                    IF df.columns[j] \in DOMAIN contact
                    THEN contact[df.columns[j]] ELSE df.data[i][j]]
            ELSE df.data[i]]]

\* df.fillna('').to_dict(orient='records')
ToRecords(df) ==
    [i \in DOMAIN df.data |->
        [c \in Range(df.columns) |->
            IF Cell(df, df.data[i], c) = NaN THEN "" ELSE Cell(df, df.data[i], c)]]

RECURSIVE AllKeys(_)
\* the keys of a list of JSON objects, one object after the other; an object
\* is a sequence of <<key, value>> pairs
AllKeys(contacts) ==
    IF contacts = <<>> THEN <<>>
    ELSE [j \in DOMAIN Head(contacts) |-> Head(contacts)[j][1]]
            \o AllKeys(Tail(contacts))

\* the positions of `keys` that hold a key for the first time
FirstPositions(keys) ==
    LET IsFirst(n) == \A h \in 1..(n - 1) : keys[h] # keys[n]
    IN  SelectSeq([n \in DOMAIN keys |-> n], IsFirst)

\* the keys at the given positions
KeysAt(keys, positions) == [n \in DOMAIN positions |-> keys[positions[n]]]

\* the column labels of pd.DataFrame(contacts): the keys of the objects in
\* order of first appearance
ColumnsOf(contacts) ==
    KeysAt(AllKeys(contacts), FirstPositions(AllKeys(contacts)))

\* dict.get(key) of a JSON object; NaN when the key is absent
Lookup(pairs, key) ==
    IF \E k \in DOMAIN pairs : pairs[k][1] = key
    THEN pairs[CHOOSE k \in DOMAIN pairs : pairs[k][1] = key][2]
    ELSE NaN

\* the frame of a list of JSON objects under the given column labels
Frame(columns, contacts) ==
    [ columns |-> columns,
      data    |-> [i \in DOMAIN contacts |->
                    [j \in DOMAIN columns |-> Lookup(contacts[i], columns[j])]] ]

\* pd.DataFrame(contacts) for a list of JSON objects
DataFrame(contacts) == Frame(ColumnsOf(contacts), contacts)

(***************************************************************************)
(* Store faults: what the file system does to one request.                 *)
(*   "none"  every file operation works                                    *)
(*   "read"  read_csv raises (the file cannot be opened or read)           *)
(*   "write" to_csv raises after it opened, and so truncated, the file     *)
(***************************************************************************)
Faults == {"none", "read", "write"}

\* the file left behind by a to_csv that failed after truncating it
Truncated == [exists |-> TRUE, header |-> <<>>, lines |-> <<>>]

\* ensure_csv_exists(): the header-only file is created when none exists
ensure_csv_exists(file) == IF file.exists THEN file ELSE FileOf(EmptyFrame)

\* pd.read_csv(...) followed by df.columns = CSV_COLUMNS: [ok, df]
read_frame(file, fault) ==
    IF fault = "read" \/ ~Parsable(file) \/ ~CanSetColumns(FrameOf(file))
    THEN [ok |-> FALSE, df |-> EmptyFrame]
    ELSE [ok |-> TRUE, df |-> SetColumns(FrameOf(file))]

\* df.to_csv(CSV_FILE_PATH, index=False): [ok, file]
to_csv(file, df, fault) ==
    IF fault = "write"
    THEN [ok |-> FALSE, file |-> Truncated]
    ELSE [ok |-> TRUE, file |-> FileOf(df)]

(***************************************************************************)
(* The request handlers, each as a function of the state it reads and of   *)
(* its inputs.  A handler's result holds the session table and the file it *)
(* leaves behind and the HTTP status it answers with.                      *)
(***************************************************************************)
\* `except Exception as e: raise HTTPException(status_code=500, ...)`: the
\* handler's last except clause catches every exception raised in the try
\* block, the HTTPException(404) raised there included, and answers 500
ExceptException(raised) == 500

\* GET /contacts
read_contacts(file, fault) ==
    LET f0 == ensure_csv_exists(file)
        rd == read_frame(f0, fault)
    IN  IF rd.ok
        THEN [csv |-> f0, status |-> 200, body |-> ToRecords(rd.df)]
        ELSE [csv |-> f0, status |-> ExceptException("read_csv"), body |-> <<>>]

\* POST /contacts
write_contacts(file, contacts, fault) ==
    LET f0 == ensure_csv_exists(file)
        wr == to_csv(f0, DataFrame(contacts), fault)
    IN  IF wr.ok
        THEN [csv |-> wr.file, status |-> 200]
        ELSE [csv |-> wr.file, status |-> ExceptException("to_csv")]

\* nome_mae: the name of the first relative whose vinculo is "FILHA(O)"
NomeMae(parentes) ==
    IF \E i \in DOMAIN parentes : parentes[i].vinculo = "FILHA(O)"
    THEN parentes[CHOOSE i \in DOMAIN parentes :
            /\ parentes[i].vinculo = "FILHA(O)"
            /\ \A j \in 1..(i - 1) : parentes[j].vinculo # "FILHA(O)"].nome
    ELSE "N/A"

\* the dict new_contact built from the provider's data; an absent, null or
\* empty nasc is the empty sequence, an absent list of parentes the empty list
NewContact(new_id, cpf_data, contact, now) ==
    [c \in Range(CSV_COLUMNS) |->
        CASE c = "id"         -> new_id
          [] c = "name"       -> cpf_data.nome
          [] c = "mae"        -> NomeMae(cpf_data.parentes)
          [] c = "cpf"        -> format_cpf(cpf_data.cpf)
          [] c = "nascimento" -> IF cpf_data.nasc = <<>> THEN "N/A"
                                 ELSE format_date(cpf_data.nasc)
          [] c = "data"       -> get_current_datetime(now)
          [] c = "ip"         -> contact.ip
          [] OTHER            -> ""]

\* the status start_contact fails with before it builds new_contact, or 200
LookupStatus(api) ==
    CASE api.kind = "error"  -> 500                        \* RequestException
      [] api.status # 200    -> ExceptException(404)       \* "CPF data not found"
      [] api.data.nasc # <<>> /\ ~strptime_ok(api.data.nasc)
                             -> ExceptException("ValueError")
      [] OTHER               -> 200

\* sessions[new_id] = new_contact
PutSession(sess, new_id, new_contact) ==
    [k \in DOMAIN sess \cup {new_id} |->
        IF k = new_id THEN new_contact ELSE sess[k]]

\* POST /start; new_id is the uuid4() the request draws when it gets that far
start_contact(sess, file, contact, api, new_id, now, fault) ==
    LET f0 == ensure_csv_exists(file) IN
    IF LookupStatus(api) # 200
    THEN [sessions |-> sess, csv |-> f0, status |-> LookupStatus(api),
          cookie |-> None]
    ELSE
    LET new_contact == NewContact(new_id, api.data, contact, now)
        s1 == PutSession(sess, new_id, new_contact)
        rd == read_frame(f0, fault)
        wr == to_csv(f0, ConcatRow(rd.df, new_contact), fault)
    IN  IF ~rd.ok
        THEN [sessions |-> s1, csv |-> f0,
              status |-> ExceptException("read_csv"), cookie |-> None]
        ELSE IF ~wr.ok
        THEN [sessions |-> s1, csv |-> wr.file,
              status |-> ExceptException("to_csv"), cookie |-> None]
        ELSE [sessions |-> s1, csv |-> wr.file, status |-> 200,
              cookie |-> new_id]

\* `not session_id or session_id not in sessions`
SessionMissing(sess, session_id) ==
    session_id = None \/ session_id = "" \/ session_id \notin DOMAIN sess

\* a faulty merge: every value that is not None is stored, "" included
MergeFieldsOverwrite(record, contact) ==
    [k \in DOMAIN record \cup DOMAIN contact |->
        IF k \in DOMAIN contact /\ contact[k] # None
        THEN contact[k] ELSE record[k]]

\* the merge loop of complete_contact: only values that are neither None nor
\* "" are stored
MergeFields(record, contact) ==
    [k \in DOMAIN record \cup DOMAIN contact |->
        IF k \in DOMAIN contact /\ contact[k] # None /\ contact[k] # ""
        THEN contact[k] ELSE record[k]]

\* a faulty complete: the row is rewritten from the record as it was before
\* the merge
complete_contact_SyncFirst(sess, file, contact, session_id, fault) ==
    LET f0 == ensure_csv_exists(file) IN
    IF SessionMissing(sess, session_id)
    THEN [sessions |-> sess, csv |-> f0, status |-> ExceptException(404)]
    ELSE
    LET s1 == [sess EXCEPT ![session_id] = MergeFields(@, contact)]
        rd == read_frame(f0, fault)
        wr == to_csv(f0, SetRowsOf(rd.df, session_id, sess[session_id]), fault)
    IN  IF ~rd.ok
        THEN [sessions |-> s1, csv |-> f0, status |-> ExceptException("read_csv")]
        ELSE IF ~wr.ok
        THEN [sessions |-> s1, csv |-> wr.file, status |-> ExceptException("to_csv")]
        ELSE [sessions |-> s1, csv |-> wr.file, status |-> 200]

\* POST /complete
complete_contact(sess, file, contact, session_id, fault) ==
    LET f0 == ensure_csv_exists(file) IN
    IF SessionMissing(sess, session_id)
    THEN [sessions |-> sess, csv |-> f0, status |-> ExceptException(404)]
    ELSE
    LET s1 == [sess EXCEPT ![session_id] = MergeFields(@, contact)]
        rd == read_frame(f0, fault)
        wr == to_csv(f0, SetRowsOf(rd.df, session_id, s1[session_id]), fault)
    IN  IF ~rd.ok
        THEN [sessions |-> s1, csv |-> f0, status |-> ExceptException("read_csv")]
        ELSE IF ~wr.ok
        THEN [sessions |-> s1, csv |-> wr.file, status |-> ExceptException("to_csv")]
        ELSE [sessions |-> s1, csv |-> wr.file, status |-> 200]

\* a faulty finish: the entry stays in the table
DelSessionKeeps(sess, session_id) == sess

\* del sessions[session_id]
DelSession(sess, session_id) == [k \in DOMAIN sess \ {session_id} |-> sess[k]]

\* a faulty finish: the rows of the session are removed from the file too
finish_contact_DropsRows(sess, file, session_id) ==
    LET f0 == ensure_csv_exists(file)
        rd == read_frame(f0, "none")
        Others(row) == Cell(rd.df, row, "id") # session_id
        kept == [rd.df EXCEPT !.data = SelectSeq(@, Others)]
    IN  IF SessionMissing(sess, session_id)
        THEN [sessions |-> sess, csv |-> f0, status |-> ExceptException(404)]
        ELSE [sessions |-> DelSession(sess, session_id),
              csv |-> IF rd.ok THEN FileOf(kept) ELSE f0, status |-> 200]

\* POST /finish
finish_contact(sess, file, session_id) ==
    LET f0 == ensure_csv_exists(file) IN
    IF SessionMissing(sess, session_id)
    THEN [sessions |-> sess, csv |-> f0, status |-> ExceptException(404)]
    ELSE [sessions |-> DelSession(sess, session_id), csv |-> f0, status |-> 200]

(***************************************************************************)
(* The inputs the requests are drawn from.                                 *)
(***************************************************************************)
ContactStarts == { [ip |-> "1.2.3.4", cpf |-> "12345678901"] }

Clocks == { [H |-> "10", M |-> "30", d |-> "02", m |-> "11"] }

CpfDigits == << "1", "2", "3", "4", "5", "6", "7", "8", "9", "0", "1" >>

NascChars ==
    << "1", "9", "9", "0", "-", "0", "5", "-", "1", "0", " ",
       "0", "0", ":", "0", "0", ":", "0", "0" >>

\* what the lookup provider may answer
ApiResponses ==
    { [kind |-> "error"],
      [kind |-> "json", status |-> 404],
      [kind |-> "json", status |-> 200,
       data |-> [nome |-> "Ana Silva", cpf |-> CpfDigits, nasc |-> NascChars,
                 parentes |-> << [vinculo |-> "IRMA(O)", nome |-> "Caio Silva"],
                                 [vinculo |-> "FILHA(O)", nome |-> "Bruno Silva"] >>]],
      [kind |-> "json", status |-> 200,
       data |-> [nome |-> "Ana Silva", cpf |-> CpfDigits, nasc |-> <<>>,
                 parentes |-> <<>>]],
      [kind |-> "json", status |-> 200,
       data |-> [nome |-> "Ana Silva", cpf |-> CpfDigits,
                 nasc |-> SubSeq(NascChars, 1, 10), parentes |-> <<>>]] }

\* a ContactComplete body: the named fields, every other field None
Body(fields) ==
    [k \in ContactCompleteFields |-> IF k \in DOMAIN fields THEN fields[k] ELSE None]

ContactCompletes ==
    { Body(<<>>),
      Body([email |-> "a@b.com"]),
      Body([senha |-> "s3nha", email |-> ""]),
      Body([cep |-> "01001-000", telefone |-> "11999990000",
            codigo_telefone |-> "1234", codigo_email |-> "5678"]) }

\* the session_id cookies a request may carry
Cookies == {None, "forged"} \cup {uuid4(i) : i \in 0..(uuids - 1)}

\* a JSON object with the given keys, in the given order
Object(keys, record) == [j \in DOMAIN keys |-> <<keys[j], record[keys[j]]>>]

Edited(id) ==
    [c \in Range(CSV_COLUMNS) |->
        CASE c = "id"    -> id
          [] c = "name"  -> "Eva Lima"
          [] c = "email" -> "eva@x.org"
          [] c = "cep"   -> "20040-002"
          [] c = "geo"   -> None
          [] OTHER       -> ""]

\* what GET /contacts answers now, as a body for POST /contacts
ReadBack ==
    LET records == read_contacts(csv, "none").body IN
    [i \in DOMAIN records |-> Object(CSV_COLUMNS, records[i])]

\* the bodies POST /contacts is called with: the empty list, the rows as
\* read, one or two edited rows for a live or an unknown id, the same fields
\* in another key order, and objects with two keys only
ContactLists ==
    { <<>>, ReadBack,
      << Object(NewContactKeys, Edited("forged")) >>,
      << Object(<<"id", "name">>, Edited("forged")) >> }
    \cup UNION { { << Object(CSV_COLUMNS, Edited(id)) >>,
                   << Object(CSV_COLUMNS, Edited(id)),
                      Object(CSV_COLUMNS, Edited(id)) >> }
                 : id \in DOMAIN sessions \cup {"forged"} }

(***************************************************************************)
(* The state machine: one request is served at a time.                     *)
(***************************************************************************)
NoSessions == [k \in {} |-> None]

\* a worker thread that serves no request
Idle == [pc |-> "idle"]

Init ==
    /\ sessions = NoSessions
    /\ csv = NoFile
    /\ uuids = 0
    /\ last = [op |-> "none", token |-> None, status |-> 0]
    /\ started = {}
    /\ finished = {}
    /\ atFinish = NoSessions
    /\ served = 0
    /\ clean = TRUE
    /\ threads = [t \in 1..MaxThreads |-> Idle]
    /\ log = <<>>

\* one more request is served
Serve == served < MaxRequests /\ served' = served + 1

ReadContacts ==
    /\ Serve
    /\ \E fault \in {"none", "read"} :
        LET r == read_contacts(csv, fault) IN
        /\ csv' = r.csv
        /\ last' = [op |-> "read", token |-> None, status |-> r.status]
        /\ clean' = (clean /\ fault = "none")
        /\ UNCHANGED <<sessions, uuids, started, finished, atFinish, threads, log>>

WriteContacts ==
    /\ Serve
    /\ \E contacts \in ContactLists, fault \in {"none", "write"} :
        LET r == write_contacts(csv, contacts, fault) IN
        /\ csv' = r.csv
        /\ last' = [op |-> "write", token |-> None, status |-> r.status]
        /\ clean' = FALSE
        /\ UNCHANGED <<sessions, uuids, started, finished, atFinish, threads, log>>

StartContact ==
    /\ Serve
    /\ uuids < MaxSessions
    /\ \E contact \in ContactStarts, api \in ApiResponses, now \in Clocks,
          fault \in Faults :
        LET r == start_contact(sessions, csv, contact, api, uuid4(uuids), now, fault) IN
        /\ sessions' = r.sessions
        /\ csv' = r.csv
        /\ uuids' = IF LookupStatus(api) = 200 THEN uuids + 1 ELSE uuids
        /\ last' = [op |-> "start", token |-> r.cookie, status |-> r.status]
        /\ started' = IF r.status = 200 THEN started \cup {r.cookie} ELSE started
        /\ clean' = (clean /\ fault = "none")
        /\ UNCHANGED <<finished, atFinish, threads, log>>

CompleteContact ==
    /\ Serve
    /\ \E contact \in ContactCompletes, session_id \in Cookies, fault \in Faults :
        LET r == complete_contact(sessions, csv, contact, session_id, fault) IN
        /\ sessions' = r.sessions
        /\ csv' = r.csv
        /\ last' = [op |-> "complete", token |-> session_id, status |-> r.status]
        /\ clean' = (clean /\ fault = "none")
        /\ UNCHANGED <<uuids, started, finished, atFinish, threads, log>>

FinishContact ==
    /\ Serve
    /\ \E session_id \in Cookies :
        LET r == finish_contact(sessions, csv, session_id) IN
        /\ sessions' = r.sessions
        /\ csv' = r.csv
        /\ last' = [op |-> "finish", token |-> session_id, status |-> r.status]
        /\ finished' = IF r.status = 200 THEN finished \cup {session_id} ELSE finished
        /\ atFinish' = IF r.status = 200
                       THEN PutSession(atFinish, session_id, sessions[session_id])
                       ELSE atFinish
        /\ UNCHANGED <<uuids, started, clean, threads, log>>

Next ==
    \/ ReadContacts
    \/ WriteContacts
    \/ StartContact
    \/ CompleteContact
    \/ FinishContact

Spec == Init /\ [][Next]_vars

(***************************************************************************)
(* Requests served concurrently.  FastAPI runs the handlers, plain `def`   *)
(* functions, on a pool of worker threads, and no handler takes a lock.    *)
(* A request that reaches the store reads the whole file in one step and   *)
(* rewrites the whole file in a later step; the steps of different threads *)
(* interleave.  No store fault is injected here.                           *)
(***************************************************************************)
\* the history and the last-request variables are those of the sequential
\* machine; the concurrent one leaves them alone
ConcurrentFrame == UNCHANGED <<last, started, finished, atFinish, clean>>

\* thread t takes up POST /start and runs it up to its read of the file
BeginStart(t) ==
    /\ Serve
    /\ uuids < MaxSessions
    /\ threads[t] = Idle
    /\ \E contact \in ContactStarts, api \in ApiResponses, now \in Clocks :
        LET new_id == uuid4(uuids)
            new_contact == NewContact(new_id, api.data, contact, now)
            rd == read_frame(ensure_csv_exists(csv), "none")
        IN  /\ LookupStatus(api) = 200
            /\ uuids' = uuids + 1
            /\ sessions' = PutSession(sessions, new_id, new_contact)
            /\ csv' = ensure_csv_exists(csv)
            /\ threads' = [threads EXCEPT ![t] =
                    IF rd.ok
                    THEN [pc |-> "write", op |-> "start", df |-> rd.df,
                          new_contact |-> new_contact]
                    ELSE Idle]
            /\ log' = Append(log, [op |-> "start", contact |-> contact,
                                   api |-> api, new_id |-> new_id, now |-> now])
    /\ ConcurrentFrame

\* thread t takes up POST /complete and runs it up to its read of the file
BeginComplete(t) ==
    /\ Serve
    /\ threads[t] = Idle
    /\ \E contact \in ContactCompletes, session_id \in DOMAIN sessions :
        LET rd == read_frame(ensure_csv_exists(csv), "none") IN
        /\ sessions' = [sessions EXCEPT ![session_id] = MergeFields(@, contact)]
        /\ csv' = ensure_csv_exists(csv)
        /\ threads' = [threads EXCEPT ![t] =
                IF rd.ok
                THEN [pc |-> "write", op |-> "complete", df |-> rd.df,
                      session_id |-> session_id]
                ELSE Idle]
        /\ log' = Append(log, [op |-> "complete", contact |-> contact,
                               session_id |-> session_id])
    /\ UNCHANGED uuids
    /\ ConcurrentFrame

\* thread t rewrites the file from the frame it read: the last step of
\* start_contact and of complete_contact
WriteBack(t) ==
    /\ threads[t].pc = "write"
    /\ csv' = IF threads[t].op = "start"
              THEN FileOf(ConcatRow(threads[t].df, threads[t].new_contact))
              ELSE FileOf(SetRowsOf(threads[t].df, threads[t].session_id,
                                    sessions[threads[t].session_id]))
    /\ threads' = [threads EXCEPT ![t] = Idle]
    /\ UNCHANGED <<sessions, uuids, served, log>>
    /\ ConcurrentFrame

\* thread t serves POST /contacts: it reads nothing and rewrites the file
ReplaceAll(t) ==
    /\ Serve
    /\ threads[t] = Idle
    /\ \E contacts \in ContactLists :
        /\ csv' = write_contacts(csv, contacts, "none").csv
        /\ log' = Append(log, [op |-> "write", contacts |-> contacts])
    /\ UNCHANGED <<sessions, uuids, threads>>
    /\ ConcurrentFrame

NextConc ==
    \E t \in 1..MaxThreads :
        \/ BeginStart(t)
        \/ BeginComplete(t)
        \/ WriteBack(t)
        \/ ReplaceAll(t)

SpecConc == Init /\ [][NextConc]_vars

\* the state one logged request leaves behind when it is served alone
Apply(state, q) ==
    CASE q.op = "start" ->
            [ sessions |-> start_contact(state.sessions, state.csv, q.contact,
                                q.api, q.new_id, q.now, "none").sessions,
              csv |-> start_contact(state.sessions, state.csv, q.contact,
                                q.api, q.new_id, q.now, "none").csv ]
      [] q.op = "complete" ->
            [ sessions |-> complete_contact(state.sessions, state.csv, q.contact,
                                q.session_id, "none").sessions,
              csv |-> complete_contact(state.sessions, state.csv, q.contact,
                                q.session_id, "none").csv ]
      [] OTHER ->
            [ sessions |-> state.sessions,
              csv |-> write_contacts(state.csv, q.contacts, "none").csv ]

RECURSIVE Replay(_, _)
\* the state the requests leave behind when they are served one after the other
Replay(state, requests) ==
    IF requests = <<>> THEN state
    ELSE Replay(Apply(state, Head(requests)), Tail(requests))

\* the files the logged requests produce in their serial orders
SerialStores ==
    { Replay([sessions |-> NoSessions, csv |-> NoFile],
             [i \in DOMAIN log |-> log[order[i]]]).csv
        : order \in Permutations(DOMAIN log) }

(***************************************************************************)
(* What the properties below speak of.                                     *)
(***************************************************************************)
\* the rows of the Record Store as the service addresses them: the lines of
\* a file it can read, its 15 cells taken in CSV_COLUMNS order
Rows(file) ==
    IF Parsable(file) /\ CanSetColumns(FrameOf(file)) THEN file.lines ELSE <<>>

\* the stored text of `field` in row i
Stored(file, i, field) == Rows(file)[i][IndexOf(CSV_COLUMNS, field)]

\* the rows whose id is `id`
RowsOf(file, id) == {i \in DOMAIN Rows(file) : Stored(file, i, "id") = id}

\* row i of the file holds the record, field by field
RowHolds(file, i, record) ==
    \A field \in Range(CSV_COLUMNS) : Stored(file, i, field) = record[field]

\* the fields a ContactComplete body supplies with a value
Supplied(contact) ==
    {k \in ContactCompleteFields : contact[k] # None /\ contact[k] # ""}

\* C1: for every id in the Session Table the Record Store holds exactly one
\* row with that id, in every reachable state (failed requests included).
C1_OneRowPerSession ==
    \A id \in DOMAIN sessions : Cardinality(RowsOf(csv, id)) = 1

\* C2: an id is a key of the Session Table iff its start succeeded and no
\* finish of it has succeeded since, and the row of a finished id is still
\* in the Record Store.
C2_LiveIffStartedNotFinished ==
    /\ DOMAIN sessions = started \ finished
    /\ \A id \in finished : RowsOf(csv, id) # {}

\* C3 as claimed: a complete whose value for a field is absent or empty
\* leaves that field unchanged in the in-memory record and in the session's
\* row of the Record Store.
C3_EmptyValueChangesNothing ==
    \A id \in DOMAIN sessions, contact \in ContactCompletes, fault \in Faults :
        LET r == complete_contact(sessions, csv, contact, id, fault) IN
        \A field \in ContactCompleteFields \ Supplied(contact) :
            /\ r.sessions[id][field] = sessions[id][field]
            /\ \A i \in RowsOf(csv, id) \cap RowsOf(r.csv, id) :
                    Stored(r.csv, i, field) = Stored(csv, i, field)

\* C3 as amended: a complete whose value for a field is absent or empty
\* leaves that field unchanged in the in-memory record; when the request
\* succeeds, the session keeps its rows and each of them holds that unchanged
\* in-memory value, so the field is unchanged in a row that agreed with the
\* in-memory record.
C3_EmptyValueKeepsMemory ==
    \A id \in DOMAIN sessions, contact \in ContactCompletes, fault \in Faults :
        LET r == complete_contact(sessions, csv, contact, id, fault) IN
        /\ \A field \in ContactCompleteFields \ Supplied(contact) :
                r.sessions[id][field] = sessions[id][field]
        /\ r.status = 200 =>
            LET rows == Rows(r.csv) IN
            /\ {i \in DOMAIN rows : rows[i][IndexOf(CSV_COLUMNS, "id")] = id}
                    = RowsOf(csv, id)
            /\ \A i \in RowsOf(csv, id) :
                \A field \in ContactCompleteFields \ Supplied(contact) :
                    rows[i][IndexOf(CSV_COLUMNS, field)] = sessions[id][field]

\* a complete that supplied no value for senha was served with success for
\* a session whose email was set before, and the row still holds the email
C3_Witness ==
    /\ last.op = "complete" /\ last.status = 200
    /\ last.token \in DOMAIN sessions
    /\ sessions[last.token]["email"] = "a@b.com"
    /\ sessions[last.token]["senha"] = ""
    /\ \E i \in RowsOf(csv, last.token) : Stored(csv, i, "email") = "a@b.com"

\* C4: a complete or finish whose cookie is missing, was never issued or
\* belongs to a finished session is answered 404 and changes neither the
\* Session Table nor the rows of the Record Store.
C4_Rejected404 ==
    \A session_id \in Cookies :
        SessionMissing(sessions, session_id) =>
            /\ \A contact \in ContactCompletes, fault \in Faults :
                LET r == complete_contact(sessions, csv, contact, session_id, fault) IN
                r.status = 404 /\ r.sessions = sessions /\ Rows(r.csv) = Rows(csv)
            /\ LET r == finish_contact(sessions, csv, session_id) IN
                r.status = 404 /\ r.sessions = sessions /\ Rows(r.csv) = Rows(csv)

\* C5: finish is terminal: a finished id is never a key of the Session Table
\* again, and no complete or finish carrying it succeeds, changes the
\* Session Table or changes the rows of the Record Store.
C5_FinishIsTerminal ==
    \A id \in finished :
        /\ id \notin DOMAIN sessions
        /\ \A contact \in ContactCompletes, fault \in Faults :
            LET r == complete_contact(sessions, csv, contact, id, fault) IN
            r.status # 200 /\ r.sessions = sessions /\ Rows(r.csv) = Rows(csv)
        /\ LET r == finish_contact(sessions, csv, id) IN
            r.status # 200 /\ r.sessions = sessions /\ Rows(r.csv) = Rows(csv)

\* a complete carrying the id of a finished session has been served
C5_Witness ==
    /\ last.op = "complete"
    /\ last.token \in finished
    /\ last.status # 200
    /\ RowsOf(csv, last.token) # {}

\* C6: every start that succeeds adds exactly one Session Table entry and
\* exactly one Record Store row, both with the fresh id issued as the
\* cookie, and the new row holds the fields of the new in-memory record.
C6_StartAddsOneEntryOneRow ==
    uuids < MaxSessions =>
    \A contact \in ContactStarts, api \in ApiResponses, now \in Clocks,
       fault \in Faults :
        LET new_id == uuid4(uuids)
            r == start_contact(sessions, csv, contact, api, new_id, now, fault)
        IN  r.status = 200 =>
            /\ r.cookie = new_id
            /\ new_id \notin DOMAIN sessions
            /\ RowsOf(csv, new_id) = {}
            /\ DOMAIN r.sessions = DOMAIN sessions \cup {new_id}
            /\ \A id \in DOMAIN sessions : r.sessions[id] = sessions[id]
            /\ Len(Rows(r.csv)) = Len(Rows(csv)) + 1
            /\ Cardinality(RowsOf(r.csv, new_id)) = 1
            /\ \A i \in RowsOf(r.csv, new_id) :
                    RowHolds(r.csv, i, r.sessions[new_id])

\* a second start has succeeded: its session and its row are there, next
\* to the session and the row of the first one
C6_Witness ==
    /\ last.op = "start" /\ last.status = 200
    /\ Cardinality(DOMAIN sessions) = 2
    /\ Len(Rows(csv)) = 2
    /\ \E i \in RowsOf(csv, last.token) : RowHolds(csv, i, sessions[last.token])

\* C7: after start, complete and finish requests, read-all returns for every
\* live session a row equal to its in-memory record and for every finished
\* session a row equal to its in-memory record at the moment of finish.
C7_ReadAllReflectsSessions ==
    clean =>
    LET body == read_contacts(csv, "none").body IN
    /\ \A id \in DOMAIN sessions :
            \E i \in DOMAIN body : body[i] = sessions[id]
    /\ \A id \in finished :
            \E i \in DOMAIN body : body[i] = atFinish[id]

\* C8: a complete that returns an error has written none of its fields into
\* the in-memory record or into the Record Store.
C8_CompleteAllOrNothing ==
    \A session_id \in Cookies, contact \in ContactCompletes, fault \in Faults :
        LET r == complete_contact(sessions, csv, contact, session_id, fault) IN
        r.status # 200 =>
            /\ r.sessions = sessions
            /\ \A i \in RowsOf(r.csv, session_id), field \in Supplied(contact) :
                   i \in RowsOf(csv, session_id)
                   /\ Stored(r.csv, i, field) = Stored(csv, i, field)

\* C10: two successful completes on a live session with disjoint sets of
\* non-empty fields leave the in-memory record and the session's rows
\* holding the values of both sets, in either order of the two requests.
C10_DisjointCompletesUnion ==
    \A id \in DOMAIN sessions :
    \A pair \in {p \in SUBSET ContactCompletes : Cardinality(p) = 2} :
        LET c1  == CHOOSE c \in pair : TRUE
            c2  == CHOOSE c \in pair : c # c1
            r1  == complete_contact(sessions, csv, c1, id, "none")
            r12 == complete_contact(r1.sessions, r1.csv, c2, id, "none")
            r2  == complete_contact(sessions, csv, c2, id, "none")
            r21 == complete_contact(r2.sessions, r2.csv, c1, id, "none")
            rows == Rows(r12.csv)
            Holds(c) ==
                \A field \in Supplied(c) :
                    /\ r12.sessions[id][field] = c[field]
                    /\ \A i \in RowsOf(csv, id) :
                            rows[i][IndexOf(CSV_COLUMNS, field)] = c[field]
        IN  ( /\ Supplied(c1) # {} /\ Supplied(c2) # {}
              /\ Supplied(c1) \cap Supplied(c2) = {}
              /\ r1.status = 200 /\ r12.status = 200 )
            => /\ r21.status = 200
               /\ r21.sessions = r12.sessions
               /\ r21.csv = r12.csv
               /\ {i \in DOMAIN rows : rows[i][IndexOf(CSV_COLUMNS, "id")] = id}
                       = RowsOf(csv, id)
               /\ Holds(c1) /\ Holds(c2)

\* two completes with disjoint fields have been served for a live session:
\* its record and its row hold the email of one and the senha of the other
C10_Witness ==
    /\ last.op = "complete" /\ last.status = 200
    /\ last.token \in DOMAIN sessions
    /\ sessions[last.token]["email"] = "a@b.com"
    /\ sessions[last.token]["senha"] = "s3nha"
    /\ \E i \in RowsOf(csv, last.token) :
            /\ Stored(csv, i, "email") = "a@b.com"
            /\ Stored(csv, i, "senha") = "s3nha"

\* C9: under any interleaving of concurrently served start, complete and
\* replace-all requests the final Record Store equals the store some serial
\* order of those requests produces.
C9_Serializable ==
    (\A t \in 1..MaxThreads : threads[t] = Idle) => csv \in SerialStores

\* C11: complete is idempotent: for every live session and every payload,
\* the same complete request issued a second time right after the first
\* leaves the Session Table and the Record Store as the first left them.
C11_CompleteIdempotent ==
    \A id \in DOMAIN sessions, contact \in ContactCompletes, fault \in Faults :
        LET r1 == complete_contact(sessions, csv, contact, id, fault)
            r2 == complete_contact(r1.sessions, r1.csv, contact, id, fault)
        IN  r2.sessions = r1.sessions /\ r2.csv = r1.csv

\* a complete that supplies a value has been served with success for a live
\* session that has its row, and the same request once more leaves the
\* Session Table and the Record Store as they are
C11_Witness ==
    /\ last.op = "complete" /\ last.status = 200
    /\ last.token \in DOMAIN sessions
    /\ RowsOf(csv, last.token) # {}
    /\ \E contact \in ContactCompletes :
        /\ Supplied(contact) # {}
        /\ LET r == complete_contact(sessions, csv, contact, last.token, "none")
           IN  r.status = 200 /\ r.sessions = sessions /\ r.csv = csv

\* C12: start answers 404 when the lookup provider responds but reports no
\* data (body status different from 200), and 500 when the lookup transport
\* fails or the read or the write of the Record Store fails.
C12_StartStatusMapping ==
    uuids < MaxSessions =>
    \A contact \in ContactStarts, api \in ApiResponses, now \in Clocks,
       fault \in Faults :
        LET r == start_contact(sessions, csv, contact, api, uuid4(uuids), now, fault)
        IN  /\ (api.kind = "json" /\ api.status # 200) => r.status = 404
            /\ api.kind = "error" => r.status = 500
            /\ (LookupStatus(api) = 200 /\ fault # "none") => r.status = 500

\* C13: a successful start appends one row and leaves the stored values of
\* every existing row unchanged; a successful complete leaves the number of
\* rows and every row whose id is not the token unchanged.
C13_OnlyOwnRowChanges ==
    /\ uuids < MaxSessions =>
        \A contact \in ContactStarts, api \in ApiResponses, now \in Clocks,
           fault \in Faults :
            LET r == start_contact(sessions, csv, contact, api, uuid4(uuids), now, fault)
            IN  r.status = 200 =>
                /\ Len(Rows(r.csv)) = Len(Rows(csv)) + 1
                /\ \A i \in DOMAIN Rows(csv) : Rows(r.csv)[i] = Rows(csv)[i]
    /\ \A id \in DOMAIN sessions, contact \in ContactCompletes, fault \in Faults :
            LET r == complete_contact(sessions, csv, contact, id, fault)
            IN  r.status = 200 =>
                /\ Len(Rows(r.csv)) = Len(Rows(csv))
                /\ \A i \in DOMAIN Rows(csv) \ RowsOf(csv, id) :
                        Rows(r.csv)[i] = Rows(csv)[i]

\* C14 as claimed: no finish, successful or rejected, modifies the Record
\* Store: its existence, header and rows are the same after as before.
C14_FinishKeepsStore ==
    \A session_id \in Cookies :
        finish_contact(sessions, csv, session_id).csv = csv

\* C14 as amended: no finish, successful or rejected, modifies a Record
\* Store that exists; when there is no file yet, finish creates the file
\* that holds the header of the 15 columns and no row.
C14_FinishKeepsExistingStore ==
    \A session_id \in Cookies :
        LET r == finish_contact(sessions, csv, session_id) IN
        /\ csv.exists => r.csv = csv
        /\ ~csv.exists =>
            /\ r.csv.exists
            /\ r.csv.header = CSV_COLUMNS
            /\ r.csv.lines = <<>>
        /\ Rows(r.csv) = Rows(csv)

\* a finish has succeeded and the row of the finished session is in the
\* Record Store, holding the record the session had at that moment
C14_Witness ==
    /\ last.op = "finish" /\ last.status = 200
    /\ last.token \notin DOMAIN sessions
    /\ \E i \in RowsOf(csv, last.token) : RowHolds(csv, i, atFinish[last.token])

\* the fields of a record that are set at start and immutable afterwards
ImmutableFields == {"id", "cpf", "data", "ip"}

\* the id values are pairwise distinct across the rows of the Record Store
\* and across the entries of the Session Table
DistinctIds ==
    /\ \A i \in DOMAIN Rows(csv), j \in DOMAIN Rows(csv) :
            Stored(csv, i, "id") = Stored(csv, j, "id") => i = j
    /\ \A k1 \in DOMAIN sessions, k2 \in DOMAIN sessions :
            sessions[k1]["id"] = sessions[k2]["id"] => k1 = k2

\* a complete or a finish leaves id, cpf, data and ip of every in-memory
\* record as they are, and a row that holds the session's values of these
\* fields still holds them after the request
KeepsImmutableFields ==
    (served' # served /\ last'.op \in {"complete", "finish"}) =>
        \A id \in DOMAIN sessions, field \in ImmutableFields :
            /\ id \in DOMAIN sessions' =>
                    sessions'[id][field] = sessions[id][field]
            /\ \A i \in RowsOf(csv, id) :
                    Stored(csv, i, field) = sessions[id][field]
                        => /\ i \in DOMAIN Rows(csv')
                           /\ Stored(csv', i, field) = sessions[id][field]

\* C15: in every reachable state the ids are pairwise distinct across the
\* rows of the Record Store and across the Session Table, and the fields id,
\* cpf, data and ip of a session's in-memory record and row keep the values
\* given at start through every later complete and finish.
C15_UniqueIdsImmutableFields == []DistinctIds /\ [][KeepsImmutableFields]_vars

\* C16: whenever the Record Store file exists its header is the 15
\* ContactRecord columns in the fixed order, after any sequence of requests,
\* replace-all included; and a request that finds no file creates the
\* header-only file before it reads or writes.
C16_HeaderAlwaysFixed ==
    /\ csv.exists => csv.header = CSV_COLUMNS
    /\ ~csv.exists =>
        /\ ensure_csv_exists(csv).exists
        /\ ensure_csv_exists(csv).header = CSV_COLUMNS
        /\ \A session_id \in Cookies :
                finish_contact(sessions, csv, session_id).csv = ensure_csv_exists(csv)
        /\ \A fault \in Faults :
                read_contacts(csv, fault).csv = ensure_csv_exists(csv)

\* every object of the list maps each of the 15 ContactRecord fields, once
OverAllFields(contacts) ==
    \A i \in DOMAIN contacts :
        /\ Len(contacts[i]) = Len(CSV_COLUMNS)
        /\ {contacts[i][j][1] : j \in DOMAIN contacts[i]} = Range(CSV_COLUMNS)

\* the rows the list supplies: each field name mapped to the text supplied
\* for it, null as the empty string
Supplies(contacts) ==
    [i \in DOMAIN contacts |->
        [c \in Range(CSV_COLUMNS) |-> CellText(Lookup(contacts[i], c))]]

\* C17: for every list of field mappings over the 15 ContactRecord fields,
\* in any column order, a read-all issued right after a successful
\* replace-all of that list returns exactly the rows supplied.
C17_BulkRoundTrip ==
    \A contacts \in ContactLists :
        OverAllFields(contacts) =>
            LET w == write_contacts(csv, contacts, "none")
                r == read_contacts(w.csv, "none")
            IN  w.status = 200 =>
                    r.status = 200 /\ r.body = Supplies(contacts)

\* C18: after every complete that returns success for a live token the
\* Record Store holds a row with that id whose every field equals the
\* session's in-memory record, whatever the state before the request was.
C18_CompleteResyncsRow ==
    \A id \in DOMAIN sessions, contact \in ContactCompletes, fault \in Faults :
        LET r == complete_contact(sessions, csv, contact, id, fault) IN
        r.status = 200 =>
            \E i \in RowsOf(r.csv, id) : RowHolds(r.csv, i, r.sessions[id])

\* C19: a start that returns an error (failed lookup, no data, failed read
\* or write of the Record Store) leaves the Session Table and the existing
\* Record Store as they were: no session entry and no row is created.
C19_FailedStartChangesNothing ==
    uuids < MaxSessions =>
    \A contact \in ContactStarts, api \in ApiResponses, now \in Clocks,
       fault \in Faults :
        LET r == start_contact(sessions, csv, contact, api, uuid4(uuids), now, fault)
        IN  r.status # 200 =>
            /\ r.sessions = sessions
            /\ csv.exists => r.csv = csv
            /\ Rows(r.csv) = Rows(csv)

====
